---- MODULE Spec2Model ----
(***************************************************************************)
(* Model of src/main.py of railwayBackend.                                 *)
(*                                                                         *)
(* The file holds the running application (lines 1-27: the startup hook    *)
(* and GET /check_env/) and, below it, the disabled block (lines 30-120)   *)
(* with the module-level configuration check, the PDF text extractor, the  *)
(* embedding call, the content hash and the POST /upload_pdf/ handler.     *)
(* Startup and /check_env/ are modelled from the running code; the upload  *)
(* workflow, which the running code does not define, is modelled from the  *)
(* disabled block.                                                         *)
(*                                                                         *)
(* Python strings are sequences of one-character strings; None is a        *)
(* sequence no string equals.                                              *)
(***************************************************************************)
EXTENDS Integers, Sequences, FiniteSets, TLC

VARIABLES
    env,        \* the process environment: key -> None | string
    started,    \* TRUE once startup_event has run and the app serves requests
    startupLog, \* what startup_event logged: key -> "set" | "NOT SET"
    envResp,    \* the last response of GET /check_env/, NoResponse before the first
    req,        \* the upload requests: r -> record (handler position and locals)
    rows,       \* the remote table "pdf": sequence of rows, id = position
    loop,       \* per worker process: the request whose handler holds the event loop
    ex          \* the extractor applied on its own: [pc, pages, result]

vars == <<env, started, startupLog, envResp, req, rows, loop, ex>>

None == <<"None">>

----------------------------------------------------------------------------
(* Bounds of the model *)

NumReq == 2        \* upload requests
NumWorkers == 2    \* server processes sharing the remote store
MaxPages == 3      \* pages of a PDF given to the extractor on its own
MaxPageLen == 2    \* characters of one page's text there

Reqs == 1..NumReq
Workers == 1..NumWorkers

----------------------------------------------------------------------------
(* Python string helpers *)

\* str.endswith(suffix)
EndsWith(s, suffix) ==
    /\ Len(s) >= Len(suffix)
    /\ SubSeq(s, Len(s) - Len(suffix) + 1, Len(s)) = suffix

\* truthiness of an Optional[str]: None and "" are falsy, all else truthy
Truthy(v) == v # None /\ Len(v) > 0

\* the characters str.strip() removes (those the model's texts can hold)
Whitespace == {" ", "\n"}

RECURSIVE LStrip(_)
LStrip(s) ==
    IF s # <<>> /\ Head(s) \in Whitespace THEN LStrip(Tail(s)) ELSE s

RECURSIVE RStrip(_)
RStrip(s) ==
    IF s # <<>> /\ s[Len(s)] \in Whitespace
    THEN RStrip(SubSeq(s, 1, Len(s) - 1))
    ELSE s

\* str.strip()
Strip(s) == RStrip(LStrip(s))

----------------------------------------------------------------------------
(* Environment probe: startup_event and GET /check_env/ *)

EnvKeys == {"OPENAI_API_KEY", "SUPABASE_URL", "SUPABASE_SERVICE_ROLE_KEY"}

\* values an environment variable can have: absent, empty, or some text
EnvValues == {None, <<>>, <<"k">>, <<"0">>}

\* variant: 'set' if os.getenv(key) is not None else 'NOT SET'
SetOrNotIsNotNone(v) == IF v # None THEN "set" ELSE "NOT SET"

\* 'set' if os.getenv(key) else 'NOT SET'
SetOrNot(v) == IF Truthy(v) THEN "set" ELSE "NOT SET"

\* the body of check_env: the mapping it returns
check_env_body(e) == [k \in EnvKeys |-> SetOrNot(e[k])]

\* the disabled module-level check: not (OPENAI_API_KEY and SUPABASE_URL and ...)
MissingConfig(e) == ~(\A k \in EnvKeys : Truthy(e[k]))

\* startup_event: logs the three statuses; the app then serves requests
startup_event ==
    /\ ~started
    /\ startupLog' = [k \in EnvKeys |-> SetOrNot(env[k])]
    /\ started' = TRUE
    /\ UNCHANGED <<env, envResp, req, rows, loop, ex>>

\* GET /check_env/
check_env ==
    /\ started
    /\ envResp' = [kind |-> "env", status |-> 200, body |-> check_env_body(env)]
    /\ UNCHANGED <<env, started, startupLog, req, rows, loop, ex>>

----------------------------------------------------------------------------
(* PDF text extractor *)

Chars == {"a", "\n"}

RECURSIVE StringsUpTo(_)
StringsUpTo(n) ==
    IF n = 0 THEN {<<>>}
    ELSE LET shorter == StringsUpTo(n - 1)
         IN shorter \cup {Append(s, c) : s \in shorter, c \in Chars}

\* what page.extract_text() can return: None or a string
PageTexts == {None} \cup StringsUpTo(MaxPageLen)

RECURSIVE SeqsUpTo(_, _)
SeqsUpTo(S, n) ==
    IF n = 0 THEN {<<>>}
    ELSE LET shorter == SeqsUpTo(S, n - 1)
         IN shorter \cup {Append(s, x) : s \in shorter, x \in S}

\* the loop of extract_text_from_pdf over reader.pages, from the text so far
RECURSIVE ExtractLoop(_, _)
ExtractLoop(text, pages) ==
    IF pages = <<>> THEN text
    ELSE LET text_page == Head(pages)
         IN IF Truthy(text_page)
            THEN ExtractLoop(text \o text_page \o <<"\n">>, Tail(pages))
            ELSE ExtractLoop(text, Tail(pages))

\* variant: return text.rstrip()
extract_text_rstrip(pages) == RStrip(ExtractLoop(<<>>, pages))

\* extract_text_from_pdf, given the pages PdfReader recovered
extract_text_from_pdf(pages) == Strip(ExtractLoop(<<>>, pages))

ExNotRun == [pc |-> "off", pages |-> <<>>, result |-> None]

ExtractApply ==
    /\ ex.pc = "start"
    /\ ex' = [ex EXCEPT !.pc = "done", !.result = extract_text_from_pdf(ex.pages)]
    /\ UNCHANGED <<env, started, startupLog, envResp, req, rows, loop>>

----------------------------------------------------------------------------
(* POST /upload_pdf/: inputs *)

PdfSuffix == <<".", "p", "d", "f">>

Filenames == {<<"r", ".", "t", "x", "t">>, <<"a", ".", "p", "d", "f">>}

\* an uploaded byte buffer: whether PdfReader parses it, and the page texts
\* page.extract_text() then recovers
Hello == <<"H", "i">>
Files ==
    { [ok |-> FALSE, pages |-> <<>>],
      [ok |-> TRUE, pages |-> <<Hello>>],
      [ok |-> TRUE, pages |-> <<>>] }

SessionIds == {None, <<"s">>}

----------------------------------------------------------------------------
(* POST /upload_pdf/: helpers *)

\* hash_content: the SHA-256 hex digest of the text, kept symbolic (equal
\* texts give equal digests, distinct texts distinct digests)
hash_content(content) == <<"sha256", content>>

\* get_embedding on success: response['data'][0]['embedding'], opaque
get_embedding(text) == <<"embedding", text>>

\* variant: .eq("content", content_hash), the wrong column
select_by_content(table, h) ==
    {i \in 1..Len(table) : table[i].content = h}

\* supabase.from_("pdf").select("id").eq("content_hash", h).execute().data
select_by_hash(table, h) ==
    {i \in 1..Len(table) : table[i].content_hash = h}

\* variant: the duplicate test never fires
IsDuplicateNever(existing) == FALSE

\* existing.data and len(existing.data) > 0
IsDuplicate(existing) == existing # {} /\ Cardinality(existing) > 0

\* session_id or "default"
SessionOrDefault(session_id) ==
    IF Truthy(session_id) THEN session_id ELSE <<"d", "e", "f", "a", "u", "l", "t">>

\* the insert_data dictionary
insert_data(q) ==
    [ session_id   |-> SessionOrDefault(q.session_id),
      content      |-> q.text,
      content_hash |-> q.content_hash,
      message      |-> None,
      embedding    |-> q.embedding,
      metadata     |-> <<>>,
      file_name    |-> q.filename ]

\* variant: an insert that leaves the table alone when the hash is stored already
insert_unless_present(table, data) ==
    IF \E i \in 1..Len(table) : table[i].content_hash = data.content_hash
    THEN table
    ELSE Append(table, [id |-> Len(table) + 1] @@ data)

\* supabase.from_("pdf").insert(data).execute() on success: the store appends
\* the row under a fresh identifier
insert(table, data) == Append(table, [id |-> Len(table) + 1] @@ data)

Response(kind, status, message, id, detail) ==
    [kind |-> kind, status |-> status, message |-> message, id |-> id, detail |-> detail]

NoResponse == Response("none", 0, "", 0, <<>>)

\* return {"message": "PDF uploaded and embedded successfully.", "id": ...}
Success(id) ==
    Response("success", 200, "PDF uploaded and embedded successfully.", id, <<>>)

\* return {"message": "This PDF content already exists in the database."}
AlreadyExists ==
    Response("duplicate", 200, "This PDF content already exists in the database.", 0, <<>>)

\* raise HTTPException(status_code=400, detail="Only PDF files are allowed.")
OnlyPdfAllowed ==
    [type |-> "HTTPException", status_code |-> 400, detail |-> "Only PDF files are allowed."]

\* raise HTTPException(status_code=500, detail=f"Supabase insert error: ...")
InsertError ==
    [type |-> "HTTPException", status_code |-> 500, detail |-> "Supabase insert error"]

\* what the libraries raise
PdfReadError == [type |-> "PdfReadError", status_code |-> 0, detail |-> "cannot parse"]
EmbeddingError == [type |-> "EmbeddingError", status_code |-> 0, detail |-> "provider failed"]
StoreError == [type |-> "StoreError", status_code |-> 0, detail |-> "store failed"]

\* variant: detail="Internal server error", the cause dropped
OnExceptionNoCause(e) ==
    Response("error", 500, "", 0,
             <<"Internal server error: ", [type |-> "", status_code |-> 0, detail |-> ""]>>)

\* except Exception as e: raise HTTPException(500, f"Internal server error: {e}")
OnException(e) ==
    Response("error", 500, "", 0, <<"Internal server error: ", e>>)

----------------------------------------------------------------------------
(* POST /upload_pdf/: the handler, one action per stretch between two calls *)

IdleReq ==
    [ pc |-> "idle", worker |-> 0, filename |-> <<>>,
      file |-> [ok |-> FALSE, pages |-> <<>>], session_id |-> None,
      text |-> None, content_hash |-> <<>>, existing |-> {}, embedding |-> <<>>,
      resp |-> NoResponse,
      trace |-> <<>>,     \* history: the calls the handler made, with their outcome
      before |-> {} ]     \* history: the requests already answered on arrival

\* upload_pdf is a coroutine on its worker's event loop: it runs when no other
\* handler of that worker is in the middle of a stretch without await
LoopFree(r) == loop[req[r].worker] \in {0, r}

\* variant: the handler's exit leaves its worker's event loop taken
FinishKeepsLoop(r, q, resp) ==
    /\ req' = [req EXCEPT ![r] = [q EXCEPT !.pc = "done", !.resp = resp]]
    /\ UNCHANGED loop

\* the handler of r returns or raises: the response goes out, the loop is free
Finish(r, q, resp) ==
    /\ req' = [req EXCEPT ![r] = [q EXCEPT !.pc = "done", !.resp = resp]]
    /\ loop' = [loop EXCEPT ![req[r].worker] = 0]

Called(q, call, outcome) == [q EXCEPT !.trace = Append(@, <<call, outcome>>)]

\* A request arrives at a worker process and its handler runs to its first
\* await: if not file.filename.endswith(".pdf"): raise HTTPException(400), inside
\* the try whose except Exception catches it; otherwise await file.read().
\* (The file's bytes and session_id are drawn where the handler first reads them.)
Receive(r) ==
    /\ req[r].pc = "idle"
    /\ \E w \in Workers, fn \in Filenames :
         LET q == [req[r] EXCEPT !.worker = w, !.filename = fn,
                                 !.before = {o \in Reqs : req[o].pc = "done"}]
         IN /\ loop[w] = 0
            /\ IF ~EndsWith(fn, PdfSuffix)
               THEN req' = [req EXCEPT ![r] =
                              [q EXCEPT !.pc = "done",
                                        !.resp = OnException(OnlyPdfAllowed)]]
               ELSE req' = [req EXCEPT ![r] = [q EXCEPT !.pc = "reading"]]
    /\ UNCHANGED <<env, started, startupLog, envResp, rows, loop, ex>>

\* content_bytes = await file.read() is back: extract_text_from_pdf and
\* hash_content. From here to the response the handler never awaits, so it
\* keeps its worker's event loop.
Extract(r) ==
    /\ req[r].pc = "reading"
    /\ LoopFree(r)
    /\ \E f \in Files :
         LET q0 == [req[r] EXCEPT !.file = f]
         IN IF ~f.ok
            THEN Finish(r, Called(q0, "extract", "raises"), OnException(PdfReadError))
            ELSE LET text == extract_text_from_pdf(f.pages)
                     q == [Called(q0, "extract", "ok") EXCEPT
                             !.pc = "lookup", !.text = text,
                             !.content_hash = hash_content(text)]
                 IN /\ req' = [req EXCEPT ![r] = q]
                    /\ loop' = [loop EXCEPT ![req[r].worker] = r]
    /\ UNCHANGED <<env, started, startupLog, envResp, rows, ex>>

\* existing = supabase...select("id").eq("content_hash", content_hash).execute()
Lookup(r) ==
    /\ req[r].pc = "lookup"
    /\ \E outcome \in {"ok", "raises"} :
         LET q == Called(req[r], "lookup", outcome)
         IN IF outcome = "raises"
            THEN Finish(r, q, OnException(StoreError))
            ELSE LET existing == select_by_hash(rows, req[r].content_hash)
                     q2 == [q EXCEPT !.existing = existing]
                 IN IF IsDuplicate(existing)
                    THEN Finish(r, q2, AlreadyExists)
                    ELSE /\ req' = [req EXCEPT ![r] = [q2 EXCEPT !.pc = "embed"]]
                         /\ UNCHANGED loop
    /\ UNCHANGED <<env, started, startupLog, envResp, rows, ex>>

\* embedding_vector = get_embedding(text)
Embed(r) ==
    /\ req[r].pc = "embed"
    /\ \E outcome \in {"ok", "raises"} :
         LET q == Called(req[r], "embed", outcome)
         IN IF outcome = "raises"
            THEN Finish(r, q, OnException(EmbeddingError))
            ELSE /\ req' = [req EXCEPT ![r] =
                              [q EXCEPT !.pc = "insert",
                                        !.embedding = get_embedding(req[r].text)]]
                 /\ UNCHANGED loop
    /\ UNCHANGED <<env, started, startupLog, envResp, rows, ex>>

\* result = supabase.from_("pdf").insert(insert_data).execute(); the call raises,
\* or returns with result.error set, or returns the inserted row
Insert(r) ==
    /\ req[r].pc = "insert"
    /\ \E outcome \in {"ok", "error", "raises"} :
         LET q == Called(req[r], "insert", outcome)
         IN CASE outcome = "raises" ->
                   /\ Finish(r, q, OnException(StoreError))
                   /\ UNCHANGED rows
              [] outcome = "error" ->
                   /\ Finish(r, q, OnException(InsertError))
                   /\ UNCHANGED rows
              [] outcome = "ok" ->
                   \E sid \in SessionIds :
                      LET q2 == [q EXCEPT !.session_id = sid]
                      IN /\ rows' = insert(rows, insert_data(q2))
                         /\ Finish(r, q2, Success(rows'[Len(rows')].id))
    /\ UNCHANGED <<env, started, startupLog, envResp, ex>>

----------------------------------------------------------------------------
(* Specifications *)

AllSet == [k \in EnvKeys |-> <<"k">>]

\* the upload workflow: the application is up, the table empty
Init ==
    /\ env = AllSet
    /\ started = TRUE
    /\ startupLog = [k \in EnvKeys |-> SetOrNot(AllSet[k])]
    /\ envResp = NoResponse
    /\ req = [r \in Reqs |-> IdleReq]
    /\ rows = <<>>
    /\ loop = [w \in Workers |-> 0]
    /\ ex = ExNotRun

Next ==
    \/ \E r \in Reqs : Receive(r)
    \/ \E r \in Reqs : Extract(r)
    \/ \E r \in Reqs : Lookup(r)
    \/ \E r \in Reqs : Embed(r)
    \/ \E r \in Reqs : Insert(r)

Spec == Init /\ [][Next]_vars

\* every handler that can take a step eventually takes it: the event loop
\* resumes a ready coroutine and every external call returns or raises
HandlerStep(r) ==
    Extract(r) \/ Lookup(r) \/ Embed(r) \/ Insert(r)

FairSpec == Spec /\ \A r \in Reqs : WF_vars(HandlerStep(r))

\* the environment probe: any environment, startup, then /check_env/ calls
EnvInit ==
    /\ env \in [EnvKeys -> EnvValues]
    /\ started = FALSE
    /\ startupLog = [k \in EnvKeys |-> "not logged"]
    /\ envResp = NoResponse
    /\ req = [r \in Reqs |-> IdleReq]
    /\ rows = <<>>
    /\ loop = [w \in Workers |-> 0]
    /\ ex = ExNotRun

EnvNext == startup_event \/ check_env

EnvSpec == EnvInit /\ [][EnvNext]_vars

\* the extractor on its own, over every short sequence of page texts
ExtractInit ==
    /\ env = AllSet
    /\ started = TRUE
    /\ startupLog = [k \in EnvKeys |-> SetOrNot(AllSet[k])]
    /\ envResp = NoResponse
    /\ req = [r \in Reqs |-> IdleReq]
    /\ rows = <<>>
    /\ loop = [w \in Workers |-> 0]
    /\ \E pages \in SeqsUpTo(PageTexts, MaxPages) :
         ex = [pc |-> "start", pages |-> pages, result |-> None]

ExtractNext == ExtractApply

ExtractSpec == ExtractInit /\ [][ExtractNext]_vars

----------------------------------------------------------------------------
(* Properties *)

Done(r) == req[r].pc = "done"

\* the calls request r has made, and those that went wrong
Calls(r) == {req[r].trace[i][1] : i \in 1..Len(req[r].trace)}
Made(r, call, outcome) == \E i \in 1..Len(req[r].trace) : req[r].trace[i] = <<call, outcome>>
NoFailure(r) == \A i \in 1..Len(req[r].trace) : req[r].trace[i][2] = "ok"

\* the stored rows with a given content hash
RowsWithHash(h) == {i \in 1..Len(rows) : rows[i].content_hash = h}

\* r's step, if this is one, leaves the table as it is
StepOfLeavesRows(r) == req'[r] # req[r] => rows' = rows

\* C1: a request whose filename does not end with ".pdf" is answered 400 and
\* makes no extraction, lookup, embedding or insert call.
C1_NonPdfAnswered400 ==
    \A r \in Reqs :
        (Done(r) /\ ~EndsWith(req[r].filename, PdfSuffix))
            => (req[r].resp.status = 400 /\ Calls(r) = {})

\* C2: an upload whose bytes the extractor cannot parse is answered 400 with
\* the extractor's failure, never 500, and no lookup, embedding or insert follows.
C2_UnparseableAnswered400 ==
    \A r \in Reqs :
        Made(r, "extract", "raises")
            => /\ Done(r)
               /\ req[r].resp.status = 400
               /\ Calls(r) = {"extract"}

\* C3: when the duplicate lookup finds a row with the same content hash, the
\* request is answered 200 "already exists", never calls the embedding provider
\* or the insert, and none of its steps changes the stored rows.
C3_DuplicateShortCircuits ==
    /\ [](\A r \in Reqs :
            (Made(r, "lookup", "ok") /\ req[r].existing # {})
                => /\ Done(r)
                   /\ req[r].resp = AlreadyExists
                   /\ req[r].resp.status = 200
                   /\ "embed" \notin Calls(r)
                   /\ "insert" \notin Calls(r))
    /\ [][\A r \in Reqs : req'[r].existing # {} => StepOfLeavesRows(r)]_vars

C3_Witness ==
    \E r \in Reqs :
        /\ Done(r)
        /\ Made(r, "lookup", "ok")
        /\ req[r].existing # {}
        /\ req[r].resp = AlreadyExists

\* C4: two uploads of the same PDF content, the second arriving after the first
\* was answered, no call failing and nobody else uploading that content, leave
\* exactly one row with that hash; the first is answered with the success
\* message and the row's id, the second with "already exists".
C4_SequentialUploadsStoreOnce ==
    \A r1, r2 \in Reqs :
        ( /\ r1 # r2
          /\ Done(r1) /\ Done(r2)
          /\ r1 \in req[r2].before
          /\ Made(r1, "extract", "ok") /\ Made(r2, "extract", "ok")
          /\ req[r1].file = req[r2].file
          /\ NoFailure(r1) /\ NoFailure(r2)
          /\ \A o \in Reqs \ {r1, r2} :
                ~(Made(o, "extract", "ok") /\ req[o].content_hash = req[r1].content_hash) )
        => /\ Cardinality(RowsWithHash(req[r1].content_hash)) = 1
           /\ req[r1].resp.kind = "success"
           /\ req[r1].resp.status = 200
           /\ RowsWithHash(req[r1].content_hash) = {req[r1].resp.id}
           /\ req[r2].resp = AlreadyExists

C4_Witness ==
    \E r1, r2 \in Reqs :
        /\ r1 # r2
        /\ Done(r1) /\ Done(r2)
        /\ r1 \in req[r2].before
        /\ req[r1].file = req[r2].file
        /\ req[r1].resp.kind = "success"
        /\ req[r2].resp = AlreadyExists
        /\ Cardinality(RowsWithHash(req[r1].content_hash)) = 1

\* C5: two uploads of the same content whose lookups both found nothing and
\* whose inserts both went through are both answered with the success message,
\* and the table holds two rows with that content hash.
C5_ConcurrentUploadsStoreTwice ==
    \A r1, r2 \in Reqs :
        ( /\ r1 # r2
          /\ Done(r1) /\ Done(r2)
          /\ req[r1].content_hash = req[r2].content_hash
          /\ Made(r1, "lookup", "ok") /\ req[r1].existing = {}
          /\ Made(r2, "lookup", "ok") /\ req[r2].existing = {}
          /\ Made(r1, "insert", "ok") /\ Made(r2, "insert", "ok") )
        => /\ req[r1].resp.kind = "success" /\ req[r2].resp.kind = "success"
           /\ req[r1].resp.id # req[r2].resp.id
           /\ {req[r1].resp.id, req[r2].resp.id} \subseteq RowsWithHash(req[r1].content_hash)

\* both requests were in flight together, from an empty table
C5_Witness ==
    \E r1, r2 \in Reqs :
        /\ r1 # r2
        /\ Done(r1) /\ Done(r2)
        /\ r1 \notin req[r2].before /\ r2 \notin req[r1].before
        /\ req[r1].existing = {} /\ req[r2].existing = {}
        /\ req[r1].resp.kind = "success" /\ req[r2].resp.kind = "success"
        /\ Len(rows) = 2
        /\ rows[1].content_hash = rows[2].content_hash

\* C6: when the embedding call raises, the request is answered 500 with a
\* detail carrying the provider's failure, it never calls the insert, and none
\* of its steps changes the stored rows.
C6_EmbeddingFailureIs500 ==
    /\ [](\A r \in Reqs :
            Made(r, "embed", "raises")
                => /\ Done(r)
                   /\ req[r].resp.status = 500
                   /\ req[r].resp.detail = <<"Internal server error: ", EmbeddingError>>
                   /\ "insert" \notin Calls(r))
    /\ [][\A r \in Reqs : Made(r, "embed", "raises")' => StepOfLeavesRows(r)]_vars

C6_Witness ==
    \E r \in Reqs : Done(r) /\ Made(r, "embed", "raises") /\ req[r].resp.status = 500

\* the four terminal responses
Terminal(resp) ==
    \/ resp.kind = "success" /\ resp.status = 200
    \/ resp.kind = "duplicate" /\ resp.status = 200
    \/ resp.kind = "error" /\ resp.status \in {400, 500}

\* C7: every request that arrived is eventually answered, with exactly one of
\* the terminal responses, which never changes afterwards; and a step that ends
\* one request with an error changes no other request.
C7_EveryRequestAnswered ==
    /\ \A r \in Reqs : (req[r].pc # "idle") ~> Done(r)
    /\ [](\A r \in Reqs :
            /\ Done(r) <=> req[r].resp # NoResponse
            /\ Done(r) => Terminal(req[r].resp))
    /\ [][\A r \in Reqs : Done(r) => req'[r] = req[r]]_vars
    /\ [][\A r \in Reqs :
            (req'[r] # req[r] /\ req'[r].resp.kind = "error")
                => \A o \in Reqs \ {r} : req'[o] = req[o]]_vars

\* two requests in flight together, one failed and the other stored its row
C7_Witness ==
    \E r1, r2 \in Reqs :
        /\ Done(r1) /\ Done(r2)
        /\ r1 \notin req[r2].before /\ r2 \notin req[r1].before
        /\ req[r1].resp.kind = "error" /\ ~NoFailure(r1)
        /\ req[r2].resp.kind = "success"

\* C8: GET /check_env/ can always be served once the app is up; for each key on
\* its own it answers "NOT SET" when the variable is absent or empty and "set"
\* otherwise; serving it changes nothing else.
C8_CheckEnvReportsPresence ==
    /\ [](started => ENABLED check_env)
    /\ [](envResp # NoResponse
            => /\ envResp.status = 200
               /\ \A k \in EnvKeys :
                     envResp.body[k] =
                        IF env[k] = None \/ env[k] = <<>> THEN "NOT SET" ELSE "set")
    /\ [][envResp' # envResp
            => UNCHANGED <<env, started, startupLog, req, rows, loop, ex>>]_vars

C8_Witness ==
    /\ envResp # NoResponse
    /\ env["OPENAI_API_KEY"] = None
    /\ env["SUPABASE_URL"] = <<>>
    /\ env["SUPABASE_SERVICE_ROLE_KEY"] = <<"0">>
    /\ envResp.body["OPENAI_API_KEY"] = "NOT SET"
    /\ envResp.body["SUPABASE_URL"] = "NOT SET"
    /\ envResp.body["SUPABASE_SERVICE_ROLE_KEY"] = "set"

\* C9: with a required configuration value absent or empty the process does not
\* start, and no request is served.
C9_MissingConfigNeverServes ==
    /\ started => ~MissingConfig(env)
    /\ envResp # NoResponse => ~MissingConfig(env)

\* the page texts that are neither None nor empty
Contributing(pages) == SelectSeq(pages, LAMBDA p : p # None /\ p # <<>>)

RECURSIVE JoinLines(_)
JoinLines(texts) ==
    IF texts = <<>> THEN <<>>
    ELSE IF Len(texts) = 1 THEN texts[1]
    ELSE texts[1] \o <<"\n">> \o JoinLines(Tail(texts))

\* C10: the extractor's result is the non-empty page texts in page order, one
\* newline between consecutive ones, trimmed as a whole; it neither starts nor
\* ends with whitespace, and is empty when no page yields text.
C10_ExtractJoinsPages ==
    ex.pc = "done" =>
        LET texts == Contributing(ex.pages)
            joined == JoinLines(texts)
            first == CHOOSE i \in 1..(Len(joined) + 1) :
                        /\ \A j \in 1..(i - 1) : joined[j] \in Whitespace
                        /\ i <= Len(joined) => joined[i] \notin Whitespace
            last == CHOOSE i \in 0..Len(joined) :
                        /\ \A j \in (i + 1)..Len(joined) : joined[j] \in Whitespace
                        /\ i >= 1 => joined[i] \notin Whitespace
        IN /\ ex.result = SubSeq(joined, first, last)
           /\ ex.result # <<>> =>
                 /\ ex.result[1] \notin Whitespace
                 /\ ex.result[Len(ex.result)] \notin Whitespace
           /\ texts = <<>> => ex.result = <<>>

\* three pages, the middle one empty, whitespace at both ends
C10_Witness ==
    /\ ex.pc = "done"
    /\ ex.pages = << <<"\n", "a">>, <<>>, <<"a", "\n">> >>
    /\ ex.result = <<"a", "\n", "a">>

====
